---- MODULE Spec2Model ----
(***************************************************************************)
(* A model of core/src/hashing/rollingHash.ts: the RollingHash class (a    *)
(* Rabin-Karp rolling hash over a ring buffer of the last k tokens) and    *)
(* its private modPow helper.                                              *)
(*                                                                         *)
(* JavaScript numbers are IEEE doubles: integer arithmetic is exact while  *)
(* the magnitude stays below 2^53.  TLC's integers have 32 bits, so the    *)
(* unreduced products and sums of the source (up to about 2^50) are kept   *)
(* as two-limb values <<hi, lo>> standing for hi * 2^26 + lo with          *)
(* 0 <= lo < 2^26 (hi carries the sign).                                   *)
(***************************************************************************)
EXTENDS Integers, Sequences, FiniteSets, TLC

----------------------------------------------------------------------------
(* Bounds of the model *)

\* largest window size given to the constructor in Spec
MaxK == 4
\* largest number of nextHash calls on the instance in Spec
MaxPush == 5
\* largest window size of the two instances in SpecPair
MaxKPair == 2
\* largest number of nextHash calls on each instance in SpecPair
MaxPushPair == 3
\* largest small exponent given to modPow in SpecModPow
MaxExp == 9
\* largest window size of the shared instance in SpecRace
MaxKRace == 2
\* largest number of nextHash calls on the shared instance in SpecRace
MaxPushRace == 3

----------------------------------------------------------------------------
(* Program constants *)

\* mod as the largest prime with 27 bits: mod * mod then needs 54 bits
modWith27Bits == 2^27 - 39

\* readonly mod: number = 33554393
mod == 33554393

\* readonly base: number = 4194301
base == 4194301

----------------------------------------------------------------------------
(* JavaScript number arithmetic *)

\* a limb holds 26 bits
Limb == 2^26
HalfLimb == 2^13

\* The value NaN (also what ToNumber(undefined) gives).  Every number of the
\* model lies strictly between -2^30 and 2^30, so this code is free.
NaN == -(2^30)

Abs(x) == IF x < 0 THEN -x ELSE x

\* an integer |n| < 2^31 as a two-limb value
WOfInt(n) == <<n \div Limb, n % Limb>>

\* a two-limb value that fits TLC's integers, as an integer
WToInt(w) == w[1] * Limb + w[2]

WNeg(w) == IF w[2] = 0 THEN <<-w[1], 0>> ELSE <<-w[1] - 1, Limb - w[2]>>

WIsNeg(w) == w[1] < 0

WAbs(w) == IF WIsNeg(w) THEN WNeg(w) ELSE w

\* x + y
WAdd(x, y) ==
    LET lo == x[2] + y[2]
    IN  <<x[1] + y[1] + (lo \div Limb), lo % Limb>>

\* a * b for 0 <= a, b < 2^28, by 13-bit halves
WMulNat(a, b) ==
    LET a1 == a \div HalfLimb
        a0 == a % HalfLimb
        b1 == b \div HalfLimb
        b0 == b % HalfLimb
        cross == a1 * b0 + a0 * b1
        lo == a0 * b0 + (cross % HalfLimb) * HalfLimb
    IN  <<a1 * b1 + (cross \div HalfLimb) + (lo \div Limb), lo % Limb>>

\* a * b
WMul(a, b) ==
    IF (a < 0) = (b < 0)
    THEN WMulNat(Abs(a), Abs(b))
    ELSE WNeg(WMulNat(Abs(a), Abs(b)))

\* x > n for a two-limb x and a small integer n >= 0
WGt(x, n) == x[1] > 0 \/ (x[1] = 0 /\ x[2] > n)

\* r * 2^n modulo m, by doubling
RECURSIVE ShiftMod(_, _, _)
ShiftMod(r, n, m) == IF n = 0 THEN r ELSE ShiftMod((2 * r) % m, n - 1, m)

\* w modulo m for w >= 0
WModNat(w, m) == (ShiftMod(w[1] % m, 26, m) + (w[2] % m)) % m

\* The % operator of JavaScript for a divisor m > 0: the remainder of the
\* truncated division, which has the sign of the dividend.
WRem(w, m) == IF WIsNeg(w) THEN -WModNat(WNeg(w), m) ELSE WModNat(w, m)

\* |w| < 2^53: w is an integer a double holds exactly
WSafe(w) == WAbs(w)[1] < 2^27

\* e & 1: the lowest bit of ToInt32(e)
BitAnd1(e) == e[2] % 2

\* e >> 1: ToInt32(e) shifted right by one, sign-propagating.  ToInt32 keeps
\* the low 32 bits (2^32 = 64 * 2^26) and reads bit 31 as the sign.
Shr1(e) ==
    LET hi32 == e[1] % 64
    IN  IF hi32 >= 32
        THEN (hi32 - 64) * (2^25) + (e[2] \div 2)
        ELSE hi32 * (2^25) + (e[2] \div 2)

----------------------------------------------------------------------------
(* modPow *)

\* one iteration of the while loop of modPow, on its locals y, b, e
modPowStep(s, m) ==
    [y |-> IF BitAnd1(s.e) # 0 THEN WRem(WMul(s.b, s.y), m) ELSE s.y,
     b |-> WRem(WMul(s.b, s.b), m),
     e |-> WOfInt(Shr1(s.e))]

\* the locals of modPow at entry
modPowEntry(b0, exp) == [y |-> 1, b |-> b0, e |-> exp]

\* modPowLoop with the loop condition e > 0 of the pseudocode the source cites
RECURSIVE modPowLoopGtZero(_, _)
modPowLoopGtZero(s, m) ==
    IF WGt(s.e, 0) THEN modPowLoopGtZero(modPowStep(s, m), m) ELSE s

\* the while loop of modPow: the locals when e > 1 fails
RECURSIVE modPowLoop(_, _)
modPowLoop(s, m) == IF WGt(s.e, 1) THEN modPowLoop(modPowStep(s, m), m) ELSE s

\* modPowReturn as the cited pseudocode ends: return y
modPowReturnY(s, m) == s.y

\* return (b * y) % mod
modPowReturn(s, m) == WRem(WMul(s.b, s.y), m)

\* modPow(base, exp, mod), exp a two-limb value
modPow(b0, exp, m) == modPowReturn(modPowLoop(modPowEntry(b0, exp), m), m)

\* the unreduced products b * y and b * b that modPow computes from the
\* locals s on: those of the remaining iterations and of the return
RECURSIVE modPowProducts(_, _)
modPowProducts(s, m) ==
    IF WGt(s.e, 1)
    THEN {WMul(s.b, s.b)}
         \cup (IF BitAnd1(s.e) # 0 THEN {WMul(s.b, s.y)} ELSE {})
         \cup modPowProducts(modPowStep(s, m), m)
    ELSE {WMul(s.b, s.y)}

----------------------------------------------------------------------------
(* The RollingHash class *)

\* new Array(k) throws a RangeError (invalid array length) for a negative k
constructorThrows(k) == k < 0

\* constructor with maxBase = modPow(...), the
\* power itself instead of its additive inverse
constructorNoInverse(k) ==
    [k |-> k,
     maxBase |-> modPow(base, WOfInt(k), mod),
     memory |-> [j \in 0..(k - 1) |-> 0],
     i |-> 0,
     hash |-> 0]

\* The fields of a new instance.  memory is the array as JavaScript keeps it:
\* a map from the property keys that are set to their values (new
\* Array(k).fill(0) sets the keys 0..k-1).
constructor(k) ==
    [k |-> k,
     maxBase |-> mod - modPow(base, WOfInt(k), mod),
     memory |-> [j \in 0..(k - 1) |-> 0],
     i |-> 0,
     hash |-> 0]

\* the length of the array: one more than its largest index that is set
ArrayLength(memory) ==
    LET idx == {j \in DOMAIN memory : j >= 0}
    IN  IF idx = {} THEN 0 ELSE 1 + CHOOSE j \in idx : \A l \in idx : l <= j

\* a two-limb place holder for a sum that is NaN
WNaN == <<NaN, 0>>

\* nextHashSum without the term that cancels the token leaving the window
nextHashSumNoEvict(o, token) ==
    IF o.hash = NaN \/ o.i \notin DOMAIN o.memory
    THEN WNaN
    ELSE WAdd(WMul(base, o.hash), WOfInt(token))

\* base * hash + token + maxBase * memory[i], before % mod.  Reading a key
\* that is not set gives undefined, which makes the sum NaN.
nextHashSum(o, token) ==
    IF o.hash = NaN \/ o.i \notin DOMAIN o.memory
    THEN WNaN
    ELSE WAdd(WAdd(WMul(base, o.hash), WOfInt(token)),
              WMul(o.maxBase, o.memory[o.i]))

\* a % n of JavaScript on integers: NaN for n = 0, else the sign of a
JSRem(a, n) ==
    IF a = NaN \/ n = 0 THEN NaN
    ELSE IF a < 0 THEN -((-a) % Abs(n)) ELSE a % Abs(n)

\* a + 1 of JavaScript
JSInc(a) == IF a = NaN THEN NaN ELSE a + 1

\* nextHash with the cursor advanced but not wrapped: this.i = this.i + 1
nextHashNoWrap(o, token) ==
    LET sum == nextHashSum(o, token)
    IN  [o EXCEPT
            !.hash = IF sum = WNaN THEN NaN ELSE WRem(sum, mod),
            !.memory = [j \in DOMAIN o.memory \cup {o.i} |->
                            IF j = o.i THEN token ELSE o.memory[j]],
            !.i = JSInc(o.i)]

\* nextHash with the last two statements swapped: the cursor advances first
\* and the token is written to the slot it then points at
nextHashWriteAfterAdvance(o, token) ==
    LET sum == nextHashSum(o, token)
        next == JSRem(JSInc(o.i), o.k)
    IN  [o EXCEPT
            !.hash = IF sum = WNaN THEN NaN ELSE WRem(sum, mod),
            !.memory = [j \in DOMAIN o.memory \cup {next} |->
                            IF j = next THEN token ELSE o.memory[j]],
            !.i = next]

\* the fields of the instance after nextHash(token); it returns the new hash
nextHash(o, token) ==
    LET sum == nextHashSum(o, token)
    IN  [o EXCEPT
            !.hash = IF sum = WNaN THEN NaN ELSE WRem(sum, mod),
            !.memory = [j \in DOMAIN o.memory \cup {o.i} |->
                            IF j = o.i THEN token ELSE o.memory[j]],
            !.i = JSRem(JSInc(o.i), o.k)]

----------------------------------------------------------------------------
(* State *)

VARIABLES
    arg,    \* arg[h]: the window size given to the h-th constructor call
    hs,     \* hs[h]: the fields of instance h (no entry if its constructor threw)
    hist,   \* hist[h]: the tokens given to nextHash on instance h, in order
    rets,   \* rets[h]: the values nextHash returned on instance h, in order
    acc,    \* acc[h]: the unreduced sum of the last nextHash on instance h
    mp,     \* a call of modPow in progress: its arguments, locals, the number
            \* of loop iterations done, and its result
    calls   \* the calls of nextHash in progress on instance 1, statement by
            \* statement: calls.pc[c] is the statement caller c is at,
            \* calls.token[c] its argument, calls.raced whether a call has
            \* begun while another was in progress

vars == <<arg, hs, hist, rets, acc, mp, calls>>

\* the tokens given to nextHash
Tokens == {0, 65, mod - 1, -1}
TokensPair == {0, 65, -1}

\* the window sizes given to the constructor
KValues == (-1)..MaxK
KValuesPair == 1..MaxKPair

TokenSet == IF Len(arg) = 1 THEN Tokens ELSE TokensPair
PushBound == IF Len(arg) = 1 THEN MaxPush ELSE MaxPushPair

\* no call of modPow is being followed
mpIdle == [pc |-> "idle", b0 |-> 0, exp |-> <<0, 0>>, m |-> 1,
           s |-> modPowEntry(0, <<0, 0>>), iters |-> 0, result |-> NaN]

\* no call of nextHash is followed statement by statement
noCalls == [pc |-> <<>>, token |-> <<>>, raced |-> FALSE]

\* the state after the constructor calls new RollingHash(args[h])
Constructed(args) ==
    /\ arg = args
    /\ hs = [h \in {g \in 1..Len(args) : ~constructorThrows(args[g])} |->
                constructor(args[h])]
    /\ hist = [h \in DOMAIN hs |-> <<>>]
    /\ rets = [h \in DOMAIN hs |-> <<>>]
    /\ acc = [h \in DOMAIN hs |-> <<0, 0>>]
    /\ mp = mpIdle
    /\ calls = noCalls

Init == \E k0 \in KValues : Constructed(<<k0>>)

InitPair == \E k1 \in KValuesPair, k2 \in KValuesPair : Constructed(<<k1, k2>>)

\* NextHash with memory a static field: one array, that of instance 1, shared
\* by all instances
NextHashStaticMemory(h, token) ==
    LET o == [hs[h] EXCEPT !.memory = hs[1].memory]
        shared == nextHash(o, token).memory
    IN  /\ h \in DOMAIN hs
        /\ Len(hist[h]) < PushBound
        /\ hs' = [g \in DOMAIN hs |->
                    IF g = h THEN nextHash(o, token)
                    ELSE [hs[g] EXCEPT !.memory = shared]]
        /\ hist' = [hist EXCEPT ![h] = Append(hist[h], token)]
        /\ rets' = [rets EXCEPT ![h] = Append(rets[h], nextHash(o, token).hash)]
        /\ acc' = [acc EXCEPT ![h] = nextHashSum(o, token)]
        /\ UNCHANGED <<arg, mp, calls>>

\* NextHash with hash a static field: one number shared by all instances
NextHashStaticHash(h, token) ==
    /\ h \in DOMAIN hs
    /\ Len(hist[h]) < PushBound
    /\ hs' = [g \in DOMAIN hs |->
                IF g = h THEN nextHash(hs[h], token)
                ELSE [hs[g] EXCEPT !.hash = nextHash(hs[h], token).hash]]
    /\ hist' = [hist EXCEPT ![h] = Append(hist[h], token)]
    /\ rets' = [rets EXCEPT ![h] = Append(rets[h], nextHash(hs[h], token).hash)]
    /\ acc' = [acc EXCEPT ![h] = nextHashSum(hs[h], token)]
    /\ UNCHANGED <<arg, mp, calls>>

\* instance h runs nextHash(token)
NextHash(h, token) ==
    /\ h \in DOMAIN hs
    /\ Len(hist[h]) < PushBound
    /\ hs' = [hs EXCEPT ![h] = nextHash(hs[h], token)]
    /\ hist' = [hist EXCEPT ![h] = Append(hist[h], token)]
    /\ rets' = [rets EXCEPT ![h] = Append(rets[h], nextHash(hs[h], token).hash)]
    /\ acc' = [acc EXCEPT ![h] = nextHashSum(hs[h], token)]
    /\ UNCHANGED <<arg, mp, calls>>

Next == \E h \in DOMAIN hs : \E token \in TokenSet : NextHash(h, token)

Spec == Init /\ [][Next]_vars

SpecPair == InitPair /\ [][Next]_vars

----------------------------------------------------------------------------
(* nextHash, one statement at a time, on an instance two callers share *)

\* this.hash = (this.base * this.hash + token
\*              + this.maxBase * this.memory[this.i]) % this.mod
stmtHash(o, token) ==
    LET sum == nextHashSum(o, token)
    IN  [o EXCEPT !.hash = IF sum = WNaN THEN NaN ELSE WRem(sum, mod)]

\* this.memory[this.i] = token
stmtMemory(o, token) ==
    [o EXCEPT !.memory = [j \in DOMAIN o.memory \cup {o.i} |->
                              IF j = o.i THEN token ELSE o.memory[j]]]

\* stmtCursor without the wrap: this.i = this.i + 1
stmtCursorNoWrap(o) == [o EXCEPT !.i = JSInc(o.i)]

\* this.i = (this.i + 1) % this.k
stmtCursor(o) == [o EXCEPT !.i = JSRem(JSInc(o.i), o.k)]

Callers == {1, 2}
TokensRace == {0, 65, mod - 1}
KValuesRace == 1..MaxKRace

\* one instance, constructed, and two callers that hold it
InitRace ==
    \E k0 \in KValuesRace :
        /\ arg = <<k0>>
        /\ hs = <<constructor(k0)>>
        /\ hist = <<<<>>>>
        /\ rets = <<<<>>>>
        /\ acc = <<<<0, 0>>>>
        /\ mp = mpIdle
        /\ calls = [pc |-> [c \in Callers |-> "idle"],
                    token |-> [c \in Callers |-> 0],
                    raced |-> FALSE]

\* caller c calls nextHash(token)
RaceCall(c, token) ==
    /\ calls.pc[c] = "idle"
    /\ Len(hist[1]) < MaxPushRace
    /\ calls' = [pc |-> [calls.pc EXCEPT ![c] = "hash"],
                 token |-> [calls.token EXCEPT ![c] = token],
                 raced |-> (calls.raced
                            \/ \E d \in Callers \ {c} : calls.pc[d] # "idle")]
    /\ hist' = [hist EXCEPT ![1] = Append(hist[1], token)]
    /\ UNCHANGED <<arg, hs, rets, acc, mp>>

\* caller c runs the statement that computes and stores the hash
RaceHash(c) ==
    /\ calls.pc[c] = "hash"
    /\ hs' = [hs EXCEPT ![1] = stmtHash(hs[1], calls.token[c])]
    /\ acc' = [acc EXCEPT ![1] = nextHashSum(hs[1], calls.token[c])]
    /\ calls' = [calls EXCEPT !.pc[c] = "memory"]
    /\ UNCHANGED <<arg, hist, rets, mp>>

\* caller c runs the statement that writes memory[i]
RaceMemory(c) ==
    /\ calls.pc[c] = "memory"
    /\ hs' = [hs EXCEPT ![1] = stmtMemory(hs[1], calls.token[c])]
    /\ calls' = [calls EXCEPT !.pc[c] = "cursor"]
    /\ UNCHANGED <<arg, hist, rets, acc, mp>>

\* caller c runs the statement that advances the cursor
RaceCursor(c) ==
    /\ calls.pc[c] = "cursor"
    /\ hs' = [hs EXCEPT ![1] = stmtCursor(hs[1])]
    /\ calls' = [calls EXCEPT !.pc[c] = "return"]
    /\ UNCHANGED <<arg, hist, rets, acc, mp>>

\* caller c runs return this.hash
RaceReturn(c) ==
    /\ calls.pc[c] = "return"
    /\ rets' = [rets EXCEPT ![1] = Append(rets[1], hs[1].hash)]
    /\ calls' = [calls EXCEPT !.pc[c] = "idle"]
    /\ UNCHANGED <<arg, hs, hist, acc, mp>>

NextRace ==
    \E c \in Callers :
        \/ \E token \in TokensRace : RaceCall(c, token)
        \/ RaceHash(c)
        \/ RaceMemory(c)
        \/ RaceCursor(c)
        \/ RaceReturn(c)

SpecRace == InitRace /\ [][NextRace]_vars

----------------------------------------------------------------------------
(* modPow, one loop iteration at a time *)

\* 2^31 as a two-limb value: the first exponent ToInt32 reads as negative
TwoTo31 == <<32, 0>>

SmallMods == {2, 3, 5, 7}

\* the arguments (base, exp, mod) given to modPow
ModPowArgs ==
    LET exps == {WOfInt(e) : e \in 0..MaxExp} \cup {TwoTo31}
    IN  {<<b, e, m>> : b \in 0..8, e \in exps, m \in SmallMods}
        \cup {<<b, e, mod>> : b \in {0, 1, 2, base, mod - 1}, e \in exps}

ModPowCalled(b0, exp, m) ==
    /\ arg = <<>>
    /\ hs = <<>>
    /\ hist = <<>>
    /\ rets = <<>>
    /\ acc = <<>>
    /\ calls = noCalls
    /\ mp = [pc |-> "loop", b0 |-> b0, exp |-> exp, m |-> m,
             s |-> modPowEntry(b0, exp), iters |-> 0, result |-> NaN]

InitModPow == \E a \in ModPowArgs : ModPowCalled(a[1], a[2], a[3])

\* while (e > 1) { ... }: one iteration
ModPowIter ==
    /\ mp.pc = "loop"
    /\ WGt(mp.s.e, 1)
    /\ mp' = [mp EXCEPT !.s = modPowStep(mp.s, mp.m), !.iters = mp.iters + 1]
    /\ UNCHANGED <<arg, hs, hist, rets, acc, calls>>

\* the loop exits: return (b * y) % mod
ModPowReturn ==
    /\ mp.pc = "loop"
    /\ ~WGt(mp.s.e, 1)
    /\ mp' = [mp EXCEPT !.pc = "done", !.result = modPowReturn(mp.s, mp.m)]
    /\ UNCHANGED <<arg, hs, hist, rets, acc, calls>>

NextModPow == ModPowIter \/ ModPowReturn

SpecModPow == InitModPow /\ [][NextModPow]_vars

\* modPow is synchronous code: once called it runs on until it returns
SpecModPowFair == SpecModPow /\ WF_vars(NextModPow)

----------------------------------------------------------------------------
(* Reference computations the claims compare the code with.  They use no   *)
(* definition of the model of the code: products are taken modulo m by     *)
(* doubling, powers by repeated multiplication.                            *)

\* a * b modulo m for a, b >= 0 and 1 <= m < 2^28
RECURSIVE MulModRef(_, _, _)
MulModRef(a, b, m) ==
    IF a = 0 \/ b = 0 THEN 0
    ELSE (2 * MulModRef(a, b \div 2, m) + (b % 2) * (a % m)) % m

\* b^e modulo m by e multiplications
RECURSIVE RefPow(_, _, _)
RefPow(b, e, m) == IF e = 0 THEN 1 % m ELSE MulModRef(RefPow(b, e - 1, m), b, m)

\* b^(2^n) modulo m by n squarings
RECURSIVE RefPowTwoTo(_, _, _)
RefPowTwoTo(b, n, m) ==
    IF n = 0 THEN b % m
    ELSE LET r == RefPowTwoTo(b, n - 1, m) IN MulModRef(r, r, m)

\* b^exp modulo m for the exponents of ModPowArgs
RefPowW(b, exp, m) ==
    IF exp = TwoTo31 THEN RefPowTwoTo(b, 31, m) ELSE RefPow(b, WToInt(exp), m)

\* the window after the tokens ts: the last min(Len(ts), k) of them, oldest
\* first, with max(0, k - Len(ts)) zeros before them
Window(ts, k) ==
    [j \in 1..k |-> IF Len(ts) - k + j >= 1 THEN ts[Len(ts) - k + j] ELSE 0]

\* (sum over j of w[j] * base^(Len(w) - j)) mod mod, for tokens in [0, mod)
RECURSIVE PolySum(_, _)
PolySum(w, j) ==
    IF j = 0 THEN 0
    ELSE (PolySum(w, j - 1) + MulModRef(w[j], RefPow(base, Len(w) - j, mod), mod)) % mod

PolyHash(w) == PolySum(w, Len(w))

\* every token given to instance h so far is in [0, mod)
TokensInRange(h) == \A n \in 1..Len(hist[h]) : hist[h][n] \in 0..(mod - 1)

\* the last k elements of a sequence of at least k elements
LastK(ts, k) == SubSeq(ts, Len(ts) - k + 1, Len(ts))

----------------------------------------------------------------------------
(* Sanity of the model *)

TypeOK ==
    /\ DOMAIN hs \subseteq 1..Len(arg)
    /\ \A h \in DOMAIN hs :
        /\ hs[h].k = arg[h]
        /\ Len(rets[h]) <= Len(hist[h])
        /\ calls = noCalls => Len(rets[h]) = Len(hist[h])
        /\ Len(hist[h]) <= PushBound
    /\ mp.pc \in {"idle", "loop", "done"}

\* Every unreduced sum the model computes is exact in a double: the model's
\* integer arithmetic is the arithmetic of the source on the inputs it draws.
ExactArithmetic ==
    \A h \in DOMAIN hs : hs[h].k >= 1 => WSafe(acc[h])

----------------------------------------------------------------------------
(* Claims *)

\* C1: for every k >= 1 and every sequence of tokens in [0, mod), the value
\* returned by the n-th call of nextHash is the polynomial hash, computed
\* from scratch, of the window of the last min(n, k) tokens, oldest first,
\* padded on the left with zeros: during warm-up, at n = k and for n > k.
C1_HashIsPolynomialOfWindow ==
    \A h \in DOMAIN hs :
        (hs[h].k >= 1 /\ TokensInRange(h)) =>
            \A n \in 1..Len(rets[h]) :
                rets[h][n] = PolyHash(Window(SubSeq(hist[h], 1, n), hs[h].k))

\* C1 witness: a window of 3 has slid past a non-zero token, and the hash
\* returned is not zero
C1_Witness ==
    /\ 1 \in DOMAIN hs
    /\ hs[1].k = 3
    /\ Len(hist[1]) = 5
    /\ TokensInRange(1)
    /\ hist[1][1] = 65
    /\ hist[1][2] = mod - 1
    /\ rets[1][5] # 0
    /\ rets[1][5] = PolyHash(LastK(hist[1], 3))

\* C2: for every k >= 1 and every sequence of integer tokens, negative ones
\* included, the stored hash and every value nextHash returned are in
\* [0, mod).
C2_HashInRange ==
    \A h \in DOMAIN hs :
        hs[h].k >= 1 =>
            /\ hs[h].hash \in 0..(mod - 1)
            /\ \A n \in 1..Len(rets[h]) : rets[h][n] \in 0..(mod - 1)

\* C3: constructing with a window size k <= 0 is rejected: no instance comes
\* of it, so no instance has a buffer of length zero and nextHash never runs
\* on one.
C3_NonPositiveKRejected ==
    /\ \A h \in 1..Len(arg) : arg[h] <= 0 => h \notin DOMAIN hs
    /\ \A h \in DOMAIN hs : hist[h] = <<>> => ArrayLength(hs[h].memory) >= 1

\* C4: window independence: two instances of the same size k >= 1 whose
\* token sequences, each of length >= k, end with the same k tokens have the
\* same hash, whatever was pushed before.
C4_WindowIndependence ==
    (/\ DOMAIN hs = {1, 2}
     /\ hs[1].k = hs[2].k
     /\ hs[1].k >= 1
     /\ Len(hist[1]) >= hs[1].k
     /\ Len(hist[2]) >= hs[2].k
     /\ LastK(hist[1], hs[1].k) = LastK(hist[2], hs[2].k))
    => hs[1].hash = hs[2].hash

\* C5: determinism and replay: two instances constructed with the same k
\* return the same values for as long as they are fed the same tokens, and
\* after the same token history they have the same hash, cursor and buffer.
C5_DeterminismAndReplay ==
    (DOMAIN hs = {1, 2} /\ hs[1].k = hs[2].k) =>
        /\ \A n \in 1..Len(hist[1]) :
              (n <= Len(hist[2]) /\ SubSeq(hist[1], 1, n) = SubSeq(hist[2], 1, n))
                  => rets[1][n] = rets[2][n]
        /\ hist[1] = hist[2] =>
              /\ hs[1].hash = hs[2].hash
              /\ hs[1].i = hs[2].i
              /\ hs[1].memory = hs[2].memory

\* C5 witness: an instance has replayed the three tokens of another of the
\* same size, past the wrap of the cursor
C5_Witness ==
    /\ DOMAIN hs = {1, 2}
    /\ hs[1].k = 2
    /\ hs[2].k = 2
    /\ hist[1] = <<65, -1, 65>>
    /\ hist[2] = hist[1]
    /\ rets[1] = rets[2]
    /\ hs[1] = hs[2]

\* C6: for every modulus m >= 2, every base 0 <= b < m and every exponent
\* e >= 1, modPow(b, e, m) returns b^e mod m.
C6_ModPowIsPower ==
    (/\ mp.pc = "done"
     /\ mp.m >= 2
     /\ mp.b0 \in 0..(mp.m - 1)
     /\ WGt(mp.exp, 0))
    => mp.result = RefPowW(mp.b0, mp.exp, mp.m)

\* What holds of modPow: the same for the exponents 1 <= e < 2^31, which the
\* 32-bit operators & and >>= read as they are.
ModPowIsPowerBelowTwoTo31 ==
    (/\ mp.pc = "done"
     /\ mp.m >= 2
     /\ mp.b0 \in 0..(mp.m - 1)
     /\ WGt(mp.exp, 0)
     /\ mp.exp # TwoTo31)
    => mp.result = RefPowW(mp.b0, mp.exp, mp.m)

\* C7: modPow(b, 0, m) returns 1 for every base b and every modulus m >= 2.
C7_ModPowZeroExponentIsOne ==
    (mp.pc = "done" /\ mp.m >= 2 /\ mp.exp = <<0, 0>>) => mp.result = 1

\* C8: with mod = 33554393 and base = 4194301, for every k >= 1 and tokens in
\* [0, mod), every value computed before a modulo is applied is below 2^53:
\* the sum base*hash + token + maxBase*memory[i] of nextHash and the products
\* b*y and b*b of modPow.
C8_IntermediatesBelowTwoTo53 ==
    \A h \in DOMAIN hs :
        (hs[h].k >= 1 /\ TokensInRange(h)) =>
            /\ WSafe(acc[h])
            /\ ~WIsNeg(acc[h])
            /\ \A p \in modPowProducts(modPowEntry(base, WOfInt(hs[h].k)), mod) :
                  WSafe(p) /\ ~WIsNeg(p)

\* C8 witness: with k = 4 (modPow squares a reduced b) the token mod - 1
\* leaves the window and the sum is at least 2^49
C8_Witness ==
    /\ 1 \in DOMAIN hs
    /\ hs[1].k = 4
    /\ Len(hist[1]) = 5
    /\ TokensInRange(1)
    /\ hist[1][1] = mod - 1
    /\ acc[1][1] >= 2^23

\* C9: for every k >= 1 there is no terminal or failure state: after any
\* number of pushes the hash is a number, the cursor is an index of the
\* buffer, which has k slots, and nextHash can run again with every token.
C9_NoFailureState ==
    \A h \in DOMAIN hs :
        hs[h].k >= 1 =>
            /\ hs[h].hash # NaN
            /\ hs[h].i \in 0..(hs[h].k - 1)
            /\ DOMAIN hs[h].memory = 0..(hs[h].k - 1)
            /\ Len(hist[h]) < PushBound =>
                  \A token \in TokenSet : ENABLED NextHash(h, token)

\* C9 witness: four pushes, a negative token among them, have taken the
\* cursor of a window of 2 around twice
C9_Witness ==
    /\ 1 \in DOMAIN hs
    /\ hs[1].k = 2
    /\ Len(hist[1]) = 4
    /\ hist[1][3] = -1
    /\ hs[1].i = 0
    /\ ENABLED NextHash(1, -1)

\* C10: right after construction with k >= 1 the buffer has exactly k slots,
\* all 0, the cursor is 0, the hash is 0 and maxBase is
\* (mod - (base^k mod mod)) mod mod.
C10_StateAfterConstruction ==
    \A h \in DOMAIN hs :
        (hs[h].k >= 1 /\ hist[h] = <<>>) =>
            /\ DOMAIN hs[h].memory = 0..(hs[h].k - 1)
            /\ ArrayLength(hs[h].memory) = hs[h].k
            /\ \A j \in DOMAIN hs[h].memory : hs[h].memory[j] = 0
            /\ hs[h].i = 0
            /\ hs[h].hash = 0
            /\ hs[h].maxBase = (mod - RefPow(base, hs[h].k, mod)) % mod

\* C10 witness: a new instance of window size 3
C10_Witness ==
    /\ 1 \in DOMAIN hs
    /\ arg = <<3>>
    /\ hist[1] = <<>>
    /\ hs[1].maxBase = mod - RefPow(base, 3, mod)
    /\ ArrayLength(hs[1].memory) = 3

\* C11: for every k >= 1 maxBase, computed as mod - modPow(base, k, mod)
\* with no final reduction, is in [0, mod), is congruent to -(base^k) modulo
\* mod and equals (mod - modPow(base, k, mod)) mod mod; nextHash never
\* changes maxBase or k (mod and base are constants).
C11_MaxBaseIsInverseAndFixed ==
    \A h \in DOMAIN hs :
        arg[h] >= 1 =>
            /\ hs[h].k = arg[h]
            /\ hs[h].maxBase \in 0..(mod - 1)
            /\ (hs[h].maxBase + RefPow(base, arg[h], mod)) % mod = 0
            /\ hs[h].maxBase = (mod - modPow(base, WOfInt(arg[h]), mod)) % mod

\* C11 witness: after pushes that wrapped the cursor, maxBase of an instance
\* of size 2 is still the inverse of base^2
C11_Witness ==
    /\ 1 \in DOMAIN hs
    /\ arg = <<2>>
    /\ hist[1] = <<65, mod - 1, 65>>
    /\ hs[1].k = 2
    /\ hs[1].maxBase = mod - MulModRef(base, base, mod)

\* C12: for every k >= 1, after N calls of nextHash the cursor is N mod k:
\* an integer in [0, k) that each push advances by one and that wraps from
\* k - 1 to 0.
C12_CursorIsPushCountModK ==
    \A h \in DOMAIN hs :
        hs[h].k >= 1 =>
            /\ hs[h].i \in 0..(hs[h].k - 1)
            /\ hs[h].i = Len(hist[h]) % hs[h].k

\* C12 witness: the fourth push on a window of 4 has taken the cursor from
\* 3 back to 0
C12_Witness ==
    /\ 1 \in DOMAIN hs
    /\ hs[1].k = 4
    /\ Len(hist[1]) = 4
    /\ hs[1].i = 0

\* the token slot j holds after the tokens ts: the last one pushed at a
\* position (counted from 0) congruent to j modulo k, or 0
SlotToken(ts, k, j) ==
    LET at == {n \in 1..Len(ts) : (n - 1) % k = j}
    IN  IF at = {} THEN 0 ELSE ts[CHOOSE n \in at : \A l \in at : l <= n]

\* C13: buffer consistency: for every k >= 1, after N pushes the buffer has
\* exactly k slots, slot j holds the most recent token pushed at a position
\* congruent to j modulo k (0 if none), and memory[cursor], the slot the next
\* push reads and overwrites, holds the token pushed k pushes before it (0
\* when fewer than k pushes have happened).
C13_BufferHoldsLastTokens ==
    \A h \in DOMAIN hs :
        hs[h].k >= 1 =>
            /\ DOMAIN hs[h].memory = 0..(hs[h].k - 1)
            /\ ArrayLength(hs[h].memory) = hs[h].k
            /\ \A j \in 0..(hs[h].k - 1) :
                  hs[h].memory[j] = SlotToken(hist[h], hs[h].k, j)
            /\ hs[h].memory[hs[h].i] =
                  IF Len(hist[h]) >= hs[h].k
                  THEN hist[h][Len(hist[h]) - hs[h].k + 1]
                  ELSE 0

\* C13 witness: five pushes on a window of 3: slots 0 and 1 were overwritten,
\* slot 2 was not, and the cursor is on the oldest token
C13_Witness ==
    /\ 1 \in DOMAIN hs
    /\ hs[1].k = 3
    /\ hist[1] = <<65, 0, mod - 1, -1, 65>>
    /\ hs[1].memory = [j \in 0..2 |-> <<-1, 65, mod - 1>>[j + 1]]
    /\ hs[1].i = 2

\* an instance with the fields o after it alone has been given the tokens ts
RECURSIVE Replay(_, _)
Replay(o, ts) ==
    IF ts = <<>> THEN o ELSE Replay(nextHash(o, Head(ts)), Tail(ts))

\* the fields of that instance before the first token and after each one
RECURSIVE ReplayStates(_, _)
ReplayStates(o, ts) ==
    IF ts = <<>> THEN <<o>>
    ELSE <<o>> \o ReplayStates(nextHash(o, Head(ts)), Tail(ts))

\* the values a new instance of size k returns when it alone is given ts
ReplayRets(k, ts) ==
    [n \in 1..Len(ts) |-> Replay(constructor(k), SubSeq(ts, 1, n)).hash]

\* C14: instances share no mutable state: with the pushes of two instances
\* (of equal or different k) interleaved in any order, the values each has
\* returned and its buffer, cursor and hash are those it would have had
\* processing its own tokens alone; a push on one changes nothing of the
\* other.
C14_InstancesIndependent ==
    \A h \in DOMAIN hs :
        LET alone == ReplayStates(constructor(arg[h]), hist[h])
        IN  /\ hs[h] = alone[Len(alone)]
            /\ rets[h] = [n \in 1..Len(hist[h]) |-> alone[n + 1].hash]

\* C14 witness: two instances of different sizes have each been given three
\* tokens of their own
C14_Witness ==
    /\ DOMAIN hs = {1, 2}
    /\ hs[1].k = 1
    /\ hs[2].k = 2
    /\ hist[1] = <<65, -1, 0>>
    /\ hist[2] = <<-1, 65, 65>>
    /\ hs[1].hash # hs[2].hash

\* the tokens ts[p + 1 .. p + k] are k pushes of 0 that follow p pushes of
\* non-negative tokens
ZeroFlushAt(ts, k, p) ==
    /\ p + k <= Len(ts)
    /\ \A n \in 1..p : ts[n] >= 0
    /\ \A n \in (p + 1)..(p + k) : ts[n] = 0

\* C16: zero-flush equals reset: for every k >= 1, after any pushes of
\* non-negative tokens followed by k pushes of 0 the hash is 0 and every
\* slot is 0, and from then on the instance returns, for every further
\* tokens, the hashes a new instance of the same k returns for them.
C16_ZeroFlushIsReset ==
    \A h \in DOMAIN hs :
        \A p \in 0..Len(hist[h]) :
            (hs[h].k >= 1 /\ ZeroFlushAt(hist[h], hs[h].k, p)) =>
                LET k == hs[h].k
                    further == SubSeq(hist[h], p + k + 1, Len(hist[h]))
                    fresh == ReplayRets(k, further)
                IN  /\ rets[h][p + k] = 0
                    /\ Len(hist[h]) = p + k =>
                          /\ hs[h].hash = 0
                          /\ \A j \in DOMAIN hs[h].memory : hs[h].memory[j] = 0
                    /\ \A n \in 1..Len(further) : rets[h][p + k + n] = fresh[n]

\* C16 witness: a window of 2 that held mod - 1 was flushed by two zeros and
\* then given two more tokens, with the cursor not where a new instance
\* would have it
C16_Witness ==
    /\ 1 \in DOMAIN hs
    /\ hs[1].k = 2
    /\ hist[1] = <<mod - 1, 0, 0, 65, mod - 1>>
    /\ rets[1][1] # 0
    /\ rets[1][3] = 0
    /\ rets[1][5] = ReplayRets(2, <<65, mod - 1>>)[2]
    /\ hs[1].i # Replay(constructor(2), <<65, mod - 1>>).i

\* x < y for two-limb values
WLt(x, y) == x[1] < y[1] \/ (x[1] = y[1] /\ x[2] < y[2])

\* floor(log2(n)) for n >= 1, and 0 for n = 0
RECURSIVE FloorLog2(_)
FloorLog2(n) == IF n <= 1 THEN 0 ELSE 1 + FloorLog2(n \div 2)

\* the same for the exponents of ModPowArgs
FloorLog2W(exp) == IF exp = TwoTo31 THEN 31 ELSE FloorLog2(WToInt(exp))

\* C17: modPow terminates for every exponent >= 0: e strictly decreases on
\* every iteration, and the loop exits after floor(log2(e)) iterations for
\* e >= 1 and after none for e in {0, 1}.
C17_ModPowIterations ==
    (mp.pc # "idle" /\ ~WIsNeg(mp.exp)) =>
        /\ (mp.pc = "loop" /\ WGt(mp.s.e, 1)) =>
              WLt(modPowStep(mp.s, mp.m).e, mp.s.e)
        /\ mp.iters <= FloorLog2W(mp.exp)
        /\ mp.pc = "done" => mp.iters = FloorLog2W(mp.exp)

\* What holds of modPow: the same for the exponents below 2^31.
ModPowIterationsBelowTwoTo31 ==
    mp.exp # TwoTo31 => C17_ModPowIterations

\* What holds of modPow for every exponent drawn: it returns.
ModPowTerminates == <>(mp.pc = "done")

\* the tokens of the buffer of o from the cursor on, that is oldest first
BufferedWindow(o) == [j \in 1..o.k |-> o.memory[(o.i + j - 1) % o.k]]

\* the hash of o is the polynomial hash of its buffered window
TripletConsistent(o) == o.hash = PolyHash(BufferedWindow(o))

\* no call of nextHash is in progress
AllIdle == \A c \in DOMAIN calls.pc : calls.pc[c] = "idle"

\* The three statements of nextHash, run in order, are nextHash.
StatementsMakeNextHash ==
    \A h \in DOMAIN hs : \A token \in TokenSet :
        stmtCursor(stmtMemory(stmtHash(hs[h], token), token))
            = nextHash(hs[h], token)

\* C15: if two callers share one instance and their pushes interleave at
\* the granularity of the statements of nextHash, a state is reachable in
\* which buffer, cursor and hash are the result of no serial order of the
\* pushes and the hash is not the polynomial hash of the buffered window
\* (C15_Witness is that state).  What holds in every state is the converse:
\* as long as no call has begun while another was in progress, the instance
\* between calls is the one a serial run of the pushes gives, and its hash
\* is the polynomial hash of its buffered window.
C15_CorruptionOnlyByInterleaving ==
    (AllIdle /\ ~calls.raced) =>
        /\ hs[1] = Replay(constructor(arg[1]), hist[1])
        /\ rets[1] = ReplayRets(arg[1], hist[1])
        /\ TripletConsistent(hs[1])

\* C15 witness: two interleaved pushes of different tokens on a window of 2
\* have both returned, and the instance is neither what the pushes give in
\* the one order nor in the other, its hash not that of its buffered window
C15_Witness ==
    /\ AllIdle
    /\ calls.raced
    /\ hs[1].k = 2
    /\ hist[1] = <<65, mod - 1>>
    /\ hs[1] # Replay(constructor(2), hist[1])
    /\ hs[1] # Replay(constructor(2), <<hist[1][2], hist[1][1]>>)
    /\ ~TripletConsistent(hs[1])

====
